---------------------------- MODULE Spec2Model ----------------------------
(***************************************************************************)
(* Model of the forecasting batch (forecast.py) and of the optimisation    *)
(* run (optimize.py) of the energy scheduling pipeline, over the three     *)
(* SQLite tables raw_data, forecasts and optimizations (db_setup.py).      *)
(*                                                                         *)
(* Real numbers are held on a grid: a quantity q (production units) is the *)
(* integer q * Scale.  Prices are held in hundredths.  A timestamp is an   *)
(* hour count; its TEXT form "%Y-%m-%d %H:%M:%S" is the pair <<day, hour>> *)
(* and TEXT comparison is the lexicographic order of that pair.            *)
(***************************************************************************)
EXTENDS Integers, Sequences, FiniteSets, Bags, TLC

\* ------------------------------------------------------------- bounds
Scale == 2          \* grid points per production unit
T0 == 22            \* hour count of the latest observation at start
MaxObserve == 1     \* how many further hours of observations get loaded
MaxBatches == 2     \* how many times the forecasting script is run

\* -------------------------------------------------- program constants
Steps == 24         \* forecast.py: steps=24 in main
Window == 24        \* forecast.py: window=24 in lstm_forecast
MinWindows == 10    \* forecast.py: len(X) < 10
ArimaMin == 30      \* forecast.py: len(series) < 30
HoursPerDay == 24   \* %H of strftime, ts.hour
default_cost == 15  \* optimize.py: default_cost = 0.15, in hundredths
PlantNum == 9       \* optimize.py: sum() * 0.9, as PlantNum / PlantDen
PlantDen == 10

Machines == {"A", "B"}
None == "None"
\* the outcome of a strategy call: an exception, or the values it returns
RAISE == [raise |-> TRUE, values |-> <<>>]
Return(values) == [raise |-> FALSE, values |-> values]

\* production_demand values (INTEGER column) of the observations
Demands == {1, 2}

VARIABLES
    TF_AVAILABLE, SM_AVAILABLE,   \* forecast.py import flags
    rawLen, rawLast, rawNow,      \* raw_data: rows per machine, latest demand, MAX(timestamp)
    forecasts,                    \* table forecasts: a bag of rows
    fpc,                          \* forecast.py main: "idle" | "running" | "done"
    df,                           \* load_data's snapshot of raw_data
    todo,                         \* machines the loop of main has still to visit
    used, raised, preds,          \* per machine: strategy that produced preds, whether the
                                  \* attempted strategy raised, the preds handed to persist
    runs,                         \* per machine: persists done with the current base time
    batches,                      \* runs of forecast.py so far
    specs,                        \* raw_data per machine: AVG(energy_per_unit), AVG(max_capacity)
    costs,                        \* raw_data: (machine, hour) -> AVG(energy_cost), where rows exist
    optimizations,                \* table optimizations: a set of rows
    pc,                           \* optimize_all: the phase the run is in
    fetched,                      \* what fetch_data returned
    status,                       \* what solver.Solve() returned
    before,                       \* table optimizations when the run started
    msg                           \* the line optimize_all printed last

fvars == <<TF_AVAILABLE, SM_AVAILABLE, rawLen, rawLast, rawNow, forecasts,
           fpc, df, todo, used, raised, preds, runs, batches>>

ovars == <<specs, costs, optimizations, pc, fetched, status, before, msg>>

vars == <<fvars, ovars>>

\* ---------------------------------------------------------- timestamps
\* strftime("%Y-%m-%d %H:%M:%S") of an hour-aligned instant
strftime(t) == <<t \div HoursPerDay, t % HoursPerDay>>

\* parse_dates / pd.to_datetime of the TEXT form
to_datetime(s) == s[1] * HoursPerDay + s[2]

\* TEXT comparison a <= b of two formatted timestamps
TextLeq(a, b) == a[1] < b[1] \/ (a[1] = b[1] /\ a[2] <= b[2])

\* SQL: x BETWEEN lo AND hi
Between(x, lo, hi) == TextLeq(lo, x) /\ TextLeq(x, hi)

\* float() of an INTEGER column value
float(v) == v * Scale

\* ---------------------------------------------------------- strategies
\* mutant of make_sequences: range(len(series) - window + 1)
make_sequences_inclusive(n, window) == IF n >= window THEN n - window + 1 ELSE 0

\* len(X) of make_sequences(series, window) for a series of n values
make_sequences(n, window) == IF n > window THEN n - window ELSE 0

\* what the fitted models may return: `steps` reals, possibly negative
ModelOutputs(steps) ==
    { Return([i \in 1..steps |-> -1]), Return([i \in 1..steps |-> i]) }

\* lstm_forecast: the outcomes for a series of n values
lstm_forecast(n, steps) ==
    IF make_sequences(n, Window) < MinWindows
    THEN {RAISE}
    ELSE {RAISE} \cup ModelOutputs(steps)

\* arima_forecast: the outcomes for a series of n values
arima_forecast(n, steps) ==
    IF n < ArimaMin
    THEN {RAISE}
    ELSE {RAISE} \cup ModelOutputs(steps)

\* [float(series.iloc[-1])] * 24
naive_forecast(last) == [i \in 1..Steps |-> float(last)]

\* the try block of main: <<strategy attempted, its outcomes>>
Attempt(tf, sm, n, last) ==
    IF tf THEN <<"lstm", lstm_forecast(n, Steps)>>
    ELSE IF sm THEN <<"arima", arima_forecast(n, Steps)>>
    ELSE <<"naive", {Return(naive_forecast(last))}>>

\* the strategy whose values are persisted, given the attempt and its outcome
StrategyUsed(attempted, outcome) ==
    IF outcome.raise THEN "naive" ELSE attempted

\* the except block of main
PredsOf(outcome, last) ==
    IF outcome.raise THEN naive_forecast(last) ELSE outcome.values

\* mutant of Remaining: the try / except wraps the loop, an exception ends the batch
RemainingAbortOnRaise(left, m, outcome) == IF outcome.raise THEN {} ELSE left \ {m}

\* the for loop of main: the machines left once m's iteration ended with outcome
Remaining(left, m, outcome) == left \ {m}

\* --------------------------------------------------------- persistence
\* the rows persist_forecasts inserts
forecast_data(machine_id, base_time, p) ==
    { [timestamp |-> strftime(base_time + i), machine_id |-> machine_id,
       predicted_demand |-> p[i]] : i \in 1..Len(p) }

\* mutant of DeletedRow: no DELETE before the INSERT
DeletedRowNever(r, machine_id, base_time, p) == FALSE

\* mutant of DeletedRow: the DELETE has no machine_id condition
DeletedRowAnyMachine(r, machine_id, base_time, p) ==
    Between(r.timestamp, strftime(base_time + 1), strftime(base_time + Len(p)))

\* the rows DELETE FROM forecasts WHERE machine_id = ? AND timestamp BETWEEN ? AND ? removes
DeletedRow(r, machine_id, base_time, p) ==
    /\ r.machine_id = machine_id
    /\ Between(r.timestamp, strftime(base_time + 1), strftime(base_time + Len(p)))

\* the table after persist_forecasts(conn, machine_id, base_time, preds)
persist_forecasts(table, machine_id, base_time, p) ==
    LET kept == { r \in DOMAIN table : ~DeletedRow(r, machine_id, base_time, p) }
    IN  [r \in kept |-> table[r]] (+) SetToBag(forecast_data(machine_id, base_time, p))

\* ------------------------------------------------------ forecast batch
NoFetch == [forecast_df |-> {}, specs_df |-> <<>>, energy_cost_map |-> <<>>]

\* the optimiser has not been started and its tables are empty
InitIdleOptimizer ==
    /\ specs = [m \in Machines |-> [energy_per_unit |-> 1, max_capacity |-> float(1)]]
    /\ costs = <<>>
    /\ optimizations = {}
    /\ pc = "IDLE"
    /\ fetched = NoFetch
    /\ status = None
    /\ before = {}
    /\ msg = None

NoDf == [hist |-> [m \in Machines |-> 0], last |-> [m \in Machines |-> 0], now |-> 0]

\* history lengths the raw_data table starts with
InitLens == {0, ArimaMin - 1, Window + MinWindows - 1}

InitForecast ==
    /\ TF_AVAILABLE \in BOOLEAN
    /\ SM_AVAILABLE \in BOOLEAN
    /\ rawLen \in [Machines -> InitLens]
    /\ rawLast = [m \in Machines |-> 1]
    /\ rawNow = T0
    /\ forecasts = EmptyBag
    /\ fpc = "idle"
    /\ df = NoDf
    /\ todo = {}
    /\ used = [m \in Machines |-> None]
    /\ raised = [m \in Machines |-> FALSE]
    /\ preds = [m \in Machines |-> <<>>]
    /\ runs = [m \in Machines |-> 0]
    /\ batches = 0
    /\ InitIdleOptimizer

\* db_setup.load_csv of a CSV that holds one more hour for every machine
Observe ==
    /\ rawNow < T0 + MaxObserve
    /\ \E m \in Machines : rawLen[m] > 0
    /\ rawNow' = rawNow + 1
    /\ rawLen' = [m \in Machines |-> IF rawLen[m] > 0 THEN rawLen[m] + 1 ELSE 0]
    /\ \E d \in [Machines -> Demands] :
          rawLast' = [m \in Machines |-> IF rawLen[m] > 0 THEN d[m] ELSE rawLast[m]]
    /\ UNCHANGED <<TF_AVAILABLE, SM_AVAILABLE, forecasts, fpc, df, todo, used,
                   raised, preds, runs, batches>>
    /\ UNCHANGED ovars

\* main of forecast.py up to the loop: load_data, the empty check, now, machines
StartBatch ==
    /\ fpc \in {"idle", "done"}
    /\ batches < MaxBatches
    /\ batches' = batches + 1
    /\ df' = [hist |-> rawLen, last |-> rawLast, now |-> rawNow]
    /\ IF \A m \in Machines : rawLen[m] = 0
       THEN /\ fpc' = "done"
            /\ todo' = {}
       ELSE /\ fpc' = "running"
            /\ todo' = { m \in Machines : rawLen[m] > 0 }
    /\ used' = [m \in Machines |-> None]
    /\ raised' = [m \in Machines |-> FALSE]
    /\ runs' = [m \in Machines |-> IF rawNow = df.now THEN runs[m] ELSE 0]
    /\ UNCHANGED <<TF_AVAILABLE, SM_AVAILABLE, rawLen, rawLast, rawNow, forecasts, preds>>
    /\ UNCHANGED ovars

\* one iteration of the loop of main: try / except, then persist_forecasts
ForecastMachine(m) ==
    /\ fpc = "running"
    /\ m \in todo
    /\ LET a == Attempt(TF_AVAILABLE, SM_AVAILABLE, df.hist[m], df.last[m])
       IN  \E outcome \in a[2] :
             LET p == PredsOf(outcome, df.last[m])
             IN  /\ used' = [used EXCEPT ![m] = StrategyUsed(a[1], outcome)]
                 /\ raised' = [raised EXCEPT ![m] = outcome.raise]
                 /\ preds' = [preds EXCEPT ![m] = p]
                 /\ forecasts' = persist_forecasts(forecasts, m, df.now, p)
                 /\ todo' = Remaining(todo, m, outcome)
    /\ runs' = [runs EXCEPT ![m] = IF runs[m] < MaxBatches THEN runs[m] + 1 ELSE runs[m]]
    /\ fpc' = IF todo' = {} THEN "done" ELSE "running"
    /\ UNCHANGED <<TF_AVAILABLE, SM_AVAILABLE, rawLen, rawLast, rawNow, df, batches>>
    /\ UNCHANGED ovars

NextForecast ==
    \/ Observe
    \/ StartBatch
    \/ \E m \in Machines : ForecastMachine(m)

SpecForecast == InitForecast /\ [][NextForecast]_vars

\* --------------------------------------------------------- optimiser
RECURSIVE Sum(_, _)
\* sum(f[k] for k in S)
Sum(f, S) ==
    IF S = {} THEN 0
    ELSE LET k == CHOOSE k \in S : TRUE IN f[k] + Sum(f, S \ {k})

\* ts.hour
hour(ts) == ts % HoursPerDay

\* mutant of int: round() to the nearest whole unit
int_rounded(x) == (x + Scale \div 2) \div Scale

\* int() of a real: truncation toward zero, in whole production units
int(x) == IF x >= 0 THEN x \div Scale ELSE -((-x) \div Scale)

\* min(a, b)
min(a, b) == IF a <= b THEN a ELSE b

\* fetch_data: forecast_df (timestamps parsed), specs_df, energy_cost_map
fetch_data(table, sp, co) ==
    [forecast_df |-> { [timestamp |-> to_datetime(r.timestamp), machine_id |-> r.machine_id,
                        predicted_demand |-> r.predicted_demand] : r \in BagToSet(table) },
     specs_df |-> sp,
     energy_cost_map |-> co]

\* sorted(forecast_df['timestamp'].unique()), sorted(forecast_df['machine_id'].unique())
timestamps(f) == { r.timestamp : r \in f.forecast_df }
machines(f) == { r.machine_id : r \in f.forecast_df }

\* the keys of the dict production
Keys(f) == machines(f) \X timestamps(f)

\* specs_df.loc[mid, 'max_capacity']
max_cap(f, mid) == f.specs_df[mid].max_capacity

\* specs_df['max_capacity'].sum(), over every machine of specs_df
total_capacity(f) ==
    Sum([m \in DOMAIN f.specs_df |-> f.specs_df[m].max_capacity], DOMAIN f.specs_df)

\* mutant of pred_map_get: pred_map.get((mid, ts), max_cap)
pred_map_get_capacity(f, mid, ts) ==
    LET rows == { r \in f.forecast_df : r.machine_id = mid /\ r.timestamp = ts }
    IN  IF rows = {} THEN f.specs_df[mid].max_capacity
        ELSE (CHOOSE r \in rows : TRUE).predicted_demand

\* pred_map.get((mid, ts), 0)
pred_map_get(f, mid, ts) ==
    LET rows == { r \in f.forecast_df : r.machine_id = mid /\ r.timestamp = ts }
    IN  IF rows = {} THEN 0 ELSE (CHOOSE r \in rows : TRUE).predicted_demand

\* energy_cost_map.get((mid, ts.hour), default_cost)
energy_cost(f, mid, ts) ==
    IF <<mid, hour(ts)>> \in DOMAIN f.energy_cost_map
    THEN f.energy_cost_map[<<mid, hour(ts)>>]
    ELSE default_cost

\* cost_coefficient = energy_per_unit * energy_cost
cost_coefficient(f, mid, ts) == f.specs_df[mid].energy_per_unit * energy_cost(f, mid, ts)

\* solver.NumVar(0, max_cap, ...): the bounds of one variable
VarBounds(f, x, k) == 0 <= x[k] /\ x[k] <= max_cap(f, k[1])

\* Constraint 1: sum(production[(m, ts)] for m in machines) <= plant_capacity_limit
PlantConstraint(f, x, ts) ==
    PlantDen * Sum([m \in machines(f) |-> x[<<m, ts>>]], machines(f))
        <= PlantNum * total_capacity(f)

\* mutant of DemandCeiling: the forecast is clamped, production <= max(0, pred)
DemandCeilingClamped(f, x, k) ==
    x[k] <= (IF pred_map_get(f, k[1], k[2]) < 0 THEN 0 ELSE pred_map_get(f, k[1], k[2]))

\* Constraint 2: production[(mid, ts)] <= pred_map.get((mid, ts), 0)
DemandCeiling(f, x, k) == x[k] <= pred_map_get(f, k[1], k[2])

\* an assignment the solver accepts
Feasible(f, x) ==
    /\ \A k \in Keys(f) : VarBounds(f, x, k) /\ DemandCeiling(f, x, k)
    /\ \A ts \in timestamps(f) : PlantConstraint(f, x, ts)

\* objective.Value() of an assignment
Objective(f, x) ==
    Sum([k \in Keys(f) |-> cost_coefficient(f, k[1], k[2]) * x[k]], Keys(f))

\* the grid points a variable may take
GridTop(f) ==
    LET caps == { f.specs_df[m].max_capacity : m \in DOMAIN f.specs_df }
    IN  CHOOSE c \in caps : \A d \in caps : d <= c

FeasibleSet(f) == { x \in [Keys(f) -> 0..GridTop(f)] : Feasible(f, x) }

\* solver.Solve() with SetMinimization(): the assignments it may return as optimal
Solve(f) ==
    LET F == FeasibleSet(f)
        values == { Objective(f, x) : x \in F }
        best == CHOOSE v \in values : \A w \in values : v <= w
    IN  IF F = {} THEN {} ELSE { x \in F : Objective(f, x) = best }

\* the tuple appended to results for (mid, ts)
result_row(f, x, mid, ts) ==
    LET baseline_prod == min(pred_map_get(f, mid, ts), max_cap(f, mid))
    IN  [timestamp |-> strftime(ts), machine_id |-> mid, hour |-> hour(ts),
         optimized_production |-> x[<<mid, ts>>],
         baseline_production |-> int(baseline_prod),
         optimized_cost |-> x[<<mid, ts>>] * cost_coefficient(f, mid, ts),
         baseline_cost |-> baseline_prod * cost_coefficient(f, mid, ts)]

results(f, x) == { result_row(f, x, k[1], k[2]) : k \in Keys(f) }

\* mutant of AfterSolve: the status is not looked at
AfterSolveIgnoringStatus(st) == "PERSISTING"

\* the if / else on status: the phase that follows solver.Solve() returning st
AfterSolve(st) == IF st = "OPTIMAL" THEN "PERSISTING" ELSE "FAILED"

\* mutant of ResultStoreAfter: DELETE FROM optimizations runs before the status check
ResultStoreCleared(st, store, rows) == IF st = "OPTIMAL" THEN rows ELSE {}

\* step 6 of optimize_all: the table optimizations after the solver returned st
ResultStoreAfter(st, store, rows) ==
    IF st = "OPTIMAL" THEN rows ELSE store

\* the (machine, timestamp) cells a forecasts table may hold at start
FutureHours == {T0 + 1, T0 + 2}
PredChoices == {-1, float(1), float(1) + 1}
CapChoices == {float(1), float(2)}
PriceChoices == {0, 10}

\* a row left in optimizations by an earlier run
StaleRow ==
    [timestamp |-> strftime(T0), machine_id |-> "A", hour |-> hour(T0),
     optimized_production |-> float(1), baseline_production |-> 1,
     optimized_cost |-> float(1) * default_cost, baseline_cost |-> float(1) * default_cost]

InitIdleForecaster ==
    /\ TF_AVAILABLE = FALSE
    /\ SM_AVAILABLE = FALSE
    /\ rawLen = [m \in Machines |-> 1]
    /\ rawLast = [m \in Machines |-> 1]
    /\ rawNow = T0
    /\ fpc = "idle"
    /\ df = NoDf
    /\ todo = {}
    /\ used = [m \in Machines |-> None]
    /\ raised = [m \in Machines |-> FALSE]
    /\ preds = [m \in Machines |-> <<>>]
    /\ runs = [m \in Machines |-> 0]
    /\ batches = 0

\* the tables optimize.py finds: one forecast row at most per (machine, timestamp)
InitOptimize ==
    /\ InitIdleForecaster
    /\ \E present \in SUBSET (Machines \X FutureHours) :
          \E cell \in [present -> PredChoices] :
             forecasts = SetToBag({ [timestamp |-> strftime(k[2]), machine_id |-> k[1],
                                     predicted_demand |-> cell[k]] : k \in present })
    /\ \E observed \in (SUBSET Machines) \ {{}} :
          /\ \E cap \in [observed -> CapChoices] :
                specs = [m \in observed |->
                           [energy_per_unit |-> IF m = "A" THEN 1 ELSE 2,
                            max_capacity |-> cap[m]]]
          /\ \E price \in [observed -> PriceChoices] :
                costs = [k \in observed \X {hour(T0 + 1)} |-> price[k[1]]]
    /\ optimizations \in {{}, {StaleRow}}
    /\ pc = "IDLE"
    /\ fetched = NoFetch
    /\ status = None
    /\ before = {}
    /\ msg = None

\* optimize_all line 33: fetch_data(conn)
Fetch ==
    /\ pc = "IDLE"
    /\ pc' = "FETCHING"
    /\ fetched' = fetch_data(forecasts, specs, costs)
    /\ before' = optimizations
    /\ UNCHANGED <<specs, costs, optimizations, status, msg>>
    /\ UNCHANGED fvars

\* optimize_all lines 35-37: forecast_df.empty
NoForecasts ==
    /\ pc = "FETCHING"
    /\ fetched.forecast_df = {}
    /\ pc' = "FAILED"
    /\ msg' = "No forecasts found. Run forecast.py first."
    /\ UNCHANGED <<specs, costs, optimizations, fetched, status, before>>
    /\ UNCHANGED fvars

\* optimize_all lines 39-44: timestamps, machines, then CreateSolver is called
BeginBuild ==
    /\ pc = "FETCHING"
    /\ fetched.forecast_df # {}
    /\ pc' = "BUILDING_MODEL"
    /\ UNCHANGED <<specs, costs, optimizations, fetched, status, before, msg>>
    /\ UNCHANGED fvars

\* optimize_all lines 45-47: CreateSolver returned no solver
SolverUnavailable ==
    /\ pc = "BUILDING_MODEL"
    /\ pc' = "FAILED"
    /\ msg' = "SCIP solver not available."
    /\ UNCHANGED <<specs, costs, optimizations, fetched, status, before>>
    /\ UNCHANGED fvars

\* optimize_all line 54: specs_df.loc[mid, 'max_capacity'] raises KeyError for a machine
\* that has forecasts and no raw_data row; the exception ends the run
BuildRaises ==
    /\ pc = "BUILDING_MODEL"
    /\ ~(machines(fetched) \subseteq DOMAIN fetched.specs_df)
    /\ pc' = "RAISED"
    /\ msg' = "KeyError"
    /\ UNCHANGED <<specs, costs, optimizations, fetched, status, before>>
    /\ UNCHANGED fvars

\* optimize_all lines 49-81: variables, constraints, objective, then solver.Solve() is called
BuildModel ==
    /\ pc = "BUILDING_MODEL"
    /\ machines(fetched) \subseteq DOMAIN fetched.specs_df
    /\ pc' = "SOLVING"
    /\ msg' = "Solving optimization problem..."
    /\ UNCHANGED <<specs, costs, optimizations, fetched, status, before>>
    /\ UNCHANGED fvars

\* optimize_all lines 84-114: the solver returned OPTIMAL with the assignment x
SolveOptimal ==
    /\ pc = "SOLVING"
    /\ \E x \in Solve(fetched) :
          optimizations' = ResultStoreAfter("OPTIMAL", optimizations, results(fetched, x))
    /\ status' = "OPTIMAL"
    /\ pc' = AfterSolve(status')
    /\ msg' = "Optimization complete and results have been saved to the database."
    /\ UNCHANGED <<specs, costs, fetched, before>>
    /\ UNCHANGED fvars

\* optimize_all lines 115-116: the solver returned another status
SolveNonOptimal ==
    /\ pc = "SOLVING"
    /\ status' = IF FeasibleSet(fetched) = {} THEN "INFEASIBLE" ELSE "ABNORMAL"
    /\ optimizations' = ResultStoreAfter(status', optimizations, {})
    /\ pc' = AfterSolve(status')
    /\ msg' = "The problem does not have an optimal solution."
    /\ UNCHANGED <<specs, costs, fetched, before>>
    /\ UNCHANGED fvars

NextOptimize ==
    \/ Fetch
    \/ NoForecasts
    \/ BeginBuild
    \/ SolverUnavailable
    \/ BuildRaises
    \/ BuildModel
    \/ SolveOptimal
    \/ SolveNonOptimal

SpecOptimize == InitOptimize /\ [][NextOptimize]_vars

\* the two-machine, one-hour scenario: forecasts A=50 and B=60, capacities 80 and 80,
\* and prices that make A's cost coefficient lower than B's
ScenarioCosts ==
    {<<>>} \cup { [k \in Machines \X {hour(T0 + 1)} |-> price[k[1]]] :
                  price \in [Machines -> PriceChoices] }

InitScenario ==
    /\ InitIdleForecaster
    /\ forecasts = SetToBag({
          [timestamp |-> strftime(T0 + 1), machine_id |-> "A", predicted_demand |-> float(50)],
          [timestamp |-> strftime(T0 + 1), machine_id |-> "B", predicted_demand |-> float(60)] })
    /\ specs = [m \in Machines |->
                  [energy_per_unit |-> IF m = "A" THEN 1 ELSE 2, max_capacity |-> float(80)]]
    /\ costs \in ScenarioCosts
    /\ LET f == fetch_data(forecasts, specs, costs)
       IN  cost_coefficient(f, "A", T0 + 1) < cost_coefficient(f, "B", T0 + 1)
    /\ optimizations \in {{}, {StaleRow}}
    /\ pc = "IDLE"
    /\ fetched = NoFetch
    /\ status = None
    /\ before = {}
    /\ msg = None

NextScenario ==
    \/ Fetch
    \/ BeginBuild
    \/ SolverUnavailable
    \/ BuildModel
    \/ SolveOptimal
    \/ SolveNonOptimal

SpecScenario == InitScenario /\ [][NextScenario]_vars

\* ======================================================== properties
\* what the tables say, read without the optimiser's own lookups
ForecastRows(m, t) ==
    { r \in DOMAIN forecasts : r.machine_id = m /\ to_datetime(r.timestamp) = t }

PredictedDemand(m, t) ==
    IF ForecastRows(m, t) = {} THEN 0
    ELSE (CHOOSE r \in ForecastRows(m, t) : TRUE).predicted_demand

Capacity(m) == specs[m].max_capacity

PlantCapacity == Sum([m \in DOMAIN specs |-> Capacity(m)], DOMAIN specs)

ResultsAt(ts) == { r \in optimizations : r.timestamp = ts }

\* the forecast rows of machine m whose timestamp lies in [base + 1h, base + Steps h]
HorizonRows(m, base) ==
    { r \in DOMAIN forecasts :
        /\ r.machine_id = m
        /\ base + 1 <= to_datetime(r.timestamp)
        /\ to_datetime(r.timestamp) <= base + Steps }

\* machine m has been forecast and persisted in the batch that is running or done
Persisted(m) == fpc \in {"running", "done"} /\ df.hist[m] > 0 /\ m \notin todo /\ used[m] # None

\* the horizon of m holds exactly its latest preds, one row per hour
HorizonHolds(m) ==
    LET H == HorizonRows(m, df.now)
    IN  /\ Cardinality(H) = Steps
        /\ \A r \in H : CopiesIn(r, forecasts) = 1
        /\ \A i \in 1..Steps :
              [timestamp |-> strftime(df.now + i), machine_id |-> m,
               predicted_demand |-> preds[m][i]] \in H

\* C1: after an optimal run every result row has 0 <= optimized_production <=
\* max_capacity of its machine and <= the predicted demand of its (machine, timestamp)
\* (0 where the pair has no forecast), and at every timestamp the machines'
\* optimized_production sums to at most 0.9 times the sum of all capacities.
C1_OptimalRespectsConstraints ==
    pc = "PERSISTING" =>
        /\ \A r \in optimizations :
              /\ 0 <= r.optimized_production
              /\ r.optimized_production <= Capacity(r.machine_id)
              /\ r.optimized_production
                    <= PredictedDemand(r.machine_id, to_datetime(r.timestamp))
        /\ \A r \in optimizations :
              PlantDen * Sum([q \in ResultsAt(r.timestamp) |-> q.optimized_production],
                             ResultsAt(r.timestamp))
                 <= PlantNum * PlantCapacity

\* C1 witness: an optimal run persisted a positive allocation and also a row for a
\* (machine, timestamp) pair that has no forecast
C1_Witness ==
    /\ pc = "PERSISTING"
    /\ \E r \in optimizations : r.optimized_production > 0
    /\ \E r \in optimizations : ForecastRows(r.machine_id, to_datetime(r.timestamp)) = {}

\* C2: in the scenario (forecasts A=50, B=60, capacities 80 and 80, A cheaper than B)
\* an optimal solve persists optimized_production 50 for A and 60 for B.
C2_ScenarioAllocation ==
    pc = "PERSISTING" =>
        \A r \in optimizations :
            r.optimized_production = IF r.machine_id = "A" THEN float(50) ELSE float(60)

C4_FailedRunLeavesStore ==
    pc = "FAILED" =>
        /\ optimizations = before
        /\ msg \in {"No forecasts found. Run forecast.py first.",
                    "SCIP solver not available.",
                    "The problem does not have an optimal solution."}

\* C4 witness: a run failed on a non-optimal status with rows in the store
C4_Witness ==
    /\ pc = "FAILED"
    /\ status = "INFEASIBLE"
    /\ before # {}

\* C5: however often forecasting is run for a machine with the same last known
\* timestamp, its horizon holds exactly Steps rows, one per hour, with the values of
\* the latest run: no (machine, timestamp) pair has two rows.
C5_RerunReplacesHorizon ==
    \A m \in Machines : (Persisted(m) /\ runs[m] >= 1) => HorizonHolds(m)

\* C5 witness: a machine was forecast a second time with the same base time
C5_Witness ==
    \E m \in Machines : Persisted(m) /\ runs[m] >= 2 /\ fpc = "done"

\* C6: a machine whose strategy raised gets Steps values all equal to its last observed
\* demand; every machine of the batch that has been visited has its Steps-point
\* forecast persisted, and at the end of the batch that is every machine with
\* observations; a machine whose own strategy did not raise keeps the attempted
\* strategy whatever happened to the others.
C6_FailureIsolated ==
    /\ \A m \in Machines :
          Persisted(m) =>
             /\ HorizonHolds(m)
             /\ raised[m] => \A i \in 1..Steps : preds[m][i] = float(df.last[m])
             /\ ~raised[m] =>
                   used[m] = IF TF_AVAILABLE THEN "lstm"
                             ELSE IF SM_AVAILABLE THEN "arima" ELSE "naive"
    /\ fpc = "done" => \A m \in Machines : df.hist[m] > 0 => Persisted(m)

\* C6 witness: the batch ended, the strategy of A raised and B got a model forecast
C6_Witness ==
    /\ fpc = "done"
    /\ raised["A"] /\ used["A"] = "naive"
    /\ ~raised["B"] /\ used["B"] \in {"lstm", "arima"}

\* the loop iteration of machine m is the step being taken
PersistStep(m) == fpc = "running" /\ m \in todo /\ m \notin todo'

\* C7: persist_forecasts for machine m with base b leaves every forecast row of another
\* machine, and every row of m outside [b + 1h, b + Steps h], as it was.
C7_PersistFrame ==
    [][\A m \in Machines :
          PersistStep(m) =>
             \A r \in (DOMAIN forecasts) \cup (DOMAIN forecasts') :
                (\/ r.machine_id # m
                 \/ to_datetime(r.timestamp) < df.now + 1
                 \/ to_datetime(r.timestamp) > df.now + Steps)
                   => CopiesIn(r, forecasts') = CopiesIn(r, forecasts)]_vars

\* C7 witness: after a persist for m the table still holds a row of m from before the
\* horizon and rows of another machine inside it
C7_Witness ==
    \E m \in Machines :
        /\ Persisted(m)
        /\ \E r \in DOMAIN forecasts :
              r.machine_id = m /\ to_datetime(r.timestamp) < df.now + 1
        /\ \E r \in DOMAIN forecasts :
              r.machine_id # m /\ to_datetime(r.timestamp) > df.now

\* C8 as stated: every persisted baseline_production equals min(predicted_demand,
\* max_capacity) (predicted_demand 0 without a forecast), non-integer values included.
C8_BaselineIsMin ==
    pc = "PERSISTING" =>
        \A r \in optimizations :
            float(r.baseline_production)
               = min(PredictedDemand(r.machine_id, to_datetime(r.timestamp)),
                     Capacity(r.machine_id))

\* C8 amended: every persisted baseline_production is the whole number b with
\* b <= min(predicted_demand, max_capacity) < b + 1: the minimum with its fraction
\* dropped, equal to the minimum only when that is a whole number.
C8_BaselineIsTruncatedMin ==
    pc = "PERSISTING" =>
        \A r \in optimizations :
            LET mn == min(PredictedDemand(r.machine_id, to_datetime(r.timestamp)),
                          Capacity(r.machine_id))
            IN  /\ float(r.baseline_production) <= mn
                /\ mn < float(r.baseline_production + 1)

\* C8 witness: a persisted row whose min(predicted_demand, max_capacity) is no whole number
C8_Witness ==
    /\ pc = "PERSISTING"
    /\ \E r \in optimizations :
          min(PredictedDemand(r.machine_id, to_datetime(r.timestamp)),
              Capacity(r.machine_id)) % Scale # 0

\* the phase steps both readings of C9 allow
PhaseStepCommon ==
    \/ pc = "IDLE" /\ pc' = "FETCHING"
    \/ pc = "FETCHING" /\ pc' = "BUILDING_MODEL"
    \/ pc = "BUILDING_MODEL" /\ pc' = "SOLVING"
    \/ pc = "SOLVING" /\ pc' = "PERSISTING" /\ status' = "OPTIMAL"
    \/ pc = "SOLVING" /\ pc' = "FAILED" /\ status' # "OPTIMAL"

C10_NegativeForecastBlocksRun ==
    (pc # "IDLE" /\ \E r \in DOMAIN forecasts : r.predicted_demand < 0) =>
        /\ status # "OPTIMAL"
        /\ pc # "PERSISTING"
        /\ optimizations = before

\* C10 witness: one negative forecast among non-negative ones, the solve was infeasible
\* and the store kept its rows
C10_Witness ==
    /\ pc = "FAILED"
    /\ status = "INFEASIBLE"
    /\ before # {}
    /\ Cardinality({ r \in DOMAIN forecasts : r.predicted_demand < 0 }) = 1
    /\ Cardinality({ r \in DOMAIN forecasts : r.predicted_demand >= 0 }) >= 2

=============================================================================
